---- MODULE Spec2Model ----
(***************************************************************************)
(* Model of unifeed's scheduled ingestion pipeline:                        *)
(*   internal/service/scheduler.go  SchedulerService (registry, loops)     *)
(*   internal/service (rss)         RssService (ParseFeed, StoreFeedItems, *)
(*                                  GetStoredFeedItems, sanitizeID, retry)  *)
(*   internal/http/route.go         status handler                          *)
(* Strings of the program are sequences of one-character strings.          *)
(***************************************************************************)
EXTENDS Integers, Sequences, FiniteSets, TLC

\* ------------------------------------------------------------------------
\* Bounds and program constants
\* ------------------------------------------------------------------------
\* longest item list a source returns / a caller stores
MaxItems == 2
\* number of Job objects ever allocated
MaxJobs == 2
\* the logical clock stops producing ticks at this value
MaxTime == 2
\* number of threads calling the services from outside the loops
NumCallers == 2
\* SchedulerConfig.MaxRetries as configured (NewSchedulerService keeps a non-zero value)
MaxRetries == 2
\* RssConfig.MaxRetries as configured by Router
RssMaxRetries == 3
\* sanitizeID: longest identifier kept whole, and the length kept of a longer one
MaxIDLen == 200
KeepIDLen == 192

\* ------------------------------------------------------------------------
\* Configuration: conf.Feed{Name, RssFeed}
\* ------------------------------------------------------------------------
Names == {"f1", "f2"}

FeedURL(n) == IF n = "f1" THEN "u1" ELSE "u2"

Feed(n) == [Name |-> n, RssFeed |-> FeedURL(n)]

Urls == {FeedURL(n) : n \in Names}

\* contexts handed to StartJob and to the RssService calls
Ctxs == {"app"}

\* ------------------------------------------------------------------------
\* Items (gofeed.Item): the fields the pipeline reads
\* ------------------------------------------------------------------------
ItemA == [guid |-> <<"a", "/", "b">>, link |-> <<"l">>, title |-> <<"t">>,
          custom |-> {<<"summary", "s">>}]
ItemB == [guid |-> <<>>, link |-> <<"a", ":", "b">>, title |-> <<"t">>,
          custom |-> {<<"summary", "s">>}]
ItemC == [guid |-> <<>>, link |-> <<>>, title |-> <<"c">>, custom |-> {}]
ItemD == [guid |-> <<"d">>, link |-> <<>>, title |-> <<>>,
          custom |-> {<<"summary", "s">>}]

Items == {ItemA, ItemB, ItemC, ItemD}

ItemFields == {"guid", "link", "title", "custom"}

SeqsUpTo(X, n) == UNION {[1..k -> X] : k \in 0..n}

ItemLists == SeqsUpTo(Items, MaxItems)

Range(f) == {f[x] : x \in DOMAIN f}

\* ------------------------------------------------------------------------
\* Pure functions of RssService
\* ------------------------------------------------------------------------
\* the identifier StoreFeedItems derives: GUID, else Link, else Title
ItemID(it) ==
    IF it.guid # <<>> THEN it.guid
    ELSE IF it.link # <<>> THEN it.link
    ELSE it.title

UnsafeChars == {"/", "\\", ":", "*", "?", "\"", "<", ">", "|", " "}

Replace(id) == [i \in 1..Len(id) |-> IF id[i] \in UnsafeChars THEN "_" ELSE id[i]]

\* identifiers around the length limit: 200 characters, and three of 201 that
\* share their first 192
Pad(n) == [i \in 1..n |-> "a"]

Id200 == Pad(MaxIDLen)

LongA == Pad(KeepIDLen) \o <<"0", "0", "0", "0", "6", "3", "8", "2", "8">>

LongB == Pad(KeepIDLen) \o <<"0", "0", "0", "1", "0", "5", "4", "9", "2">>

LongC == Pad(KeepIDLen) \o <<"a", "a", "a", "a", "a", "a", "a", "a", "a">>

\* fmt.Sprintf("%x", sha256.Sum(id))[:8], tabulated for the identifiers above
Sha256Hex8(id) ==
    CASE id = LongA -> <<"8", "1", "5", "c", "8", "b", "0", "7">>
      [] id = LongB -> <<"8", "1", "5", "c", "8", "b", "0", "7">>
      [] id = LongC -> <<"a", "9", "2", "e", "f", "d", "8", "2">>

sanitizeID(id) ==
    LET safeID == Replace(id)
    IN  IF Len(safeID) > MaxIDLen
        THEN SubSeq(safeID, 1, KeepIDLen) \o <<"_">> \o Sha256Hex8(id)
        ELSE safeID

\* fmt.Sprintf("feeds/%s/items/%s.json", feedName, safeID), by path segment
ObjectName(feedName, safeID) == <<"feeds", feedName, "items", safeID, ".json">>

\* fmt.Sprintf("feeds/%s/items/", feedName)
Prefix(feedName) == <<"feeds", feedName, "items">>

HasPrefix(key, prefix) == SubSeq(key, 1, Len(prefix)) = prefix

\* fmt.Sprintf("items:%s", feedName) and the url key of the same sync.Map
ItemsKey(feedName) == <<"items:", feedName>>
UrlKey(url) == <<url>>

ZeroOf(f) == IF f = "custom" THEN {} ELSE <<>>

\* json.Marshal(feedItem): every field is omitempty
Marshal(it) == [f \in {g \in ItemFields : it[g] # ZeroOf(g)} |-> it[f]]

ItemKeyOf(feedName, it) == ObjectName(feedName, sanitizeID(ItemID(it)))

\* items whose GUIDs are the identifiers around the length limit
WithGUID(id) == [guid |-> id, link |-> <<>>, title |-> <<>>, custom |-> {}]

KeyItems == {WithGUID(id) : id \in {Id200, LongA, LongB, LongC}}

KeyItemLists == SeqsUpTo(KeyItems, MaxItems)

KeysOf(feedName, items) == {ItemKeyOf(feedName, items[i]) : i \in DOMAIN items}

\* ------------------------------------------------------------------------
\* State
\* ------------------------------------------------------------------------
VARIABLES
    s3,        \* the bucket: object name -> stored JSON object
    cache,     \* RssService.cache (sync.Map): key -> [rep, val]
    web,       \* what each source URL serves now
    frame,     \* per thread, the RssService call it is executing
    lastOK,    \* per feed name, the input of the latest successful StoreFeedItems
    fresh,     \* per feed name, no StoreFeedItems began since that success
    jobs,      \* SchedulerService.jobs: feed name -> Job
    job,       \* the Job objects: Feed, StopChan, LastRun, Error, and their context
    loop,      \* per Job, the position of its runUpdateLoop goroutine
    mu,        \* SchedulerService.mu: the writer and the readers holding it
    call,      \* per caller, the scheduler call it is executing
    ctxDone,   \* per context, whether it has been cancelled
    now        \* the logical clock read by time.Now()

storeVars == <<s3, cache, web, frame, lastOK, fresh>>
schedVars == <<jobs, job, loop, mu, call, ctxDone, now>>
vars == <<s3, cache, web, frame, lastOK, fresh, jobs, job, loop, mu, call, ctxDone, now>>

JobIds == 1..MaxJobs

Callers == {<<"c", i>> : i \in 1..NumCallers}

LoopThread(j) == <<"j", j>>

Threads == Callers \cup {LoopThread(j) : j \in JobIds}

\* what a call returns: err is the error's kind and the unit it came from
NoRet == [status |-> "none", items |-> <<>>, err |-> <<>>]

\* fn, pc: the call and its position; todo: the units of work not yet finished;
\* errs, got: errChan and itemChan; after, rerun, alone: history of the call
\* (it follows a successful store, it repeats the latest successful store, no
\* other store of the same feed overlapped it, it began while the cycles of the
\* feed were failing and then the items of the last successful cycle);
\* outer, k: the UpdateFeed the call belongs to and its range index; fetched,
\* asked, failed: the items it parsed and the indexes it asked a summary for
\* the last run of the retry helper in a call: what fn and the context did
\* (failures, cancelAt) and what the helper returned
NoRetry == [err |-> "none", calls |-> 0, retries |-> 0, lastErr |-> 0,
            failures |-> 0, cancelAt |-> 0]

NoFrame == [fn |-> "none", pc |-> "done", name |-> "", ctx |-> "app", items |-> <<>>,
            todo |-> {}, errs |-> <<>>, keys |-> <<>>, got |-> <<>>, after |-> FALSE,
            rerun |-> FALSE, alone |-> TRUE, during |-> FALSE, want |-> <<>>,
            outer |-> "none", k |-> 0, fetched |-> <<>>, asked |-> {}, failed |-> {},
            retry |-> NoRetry, hit |-> FALSE, tries |-> <<>>, ret |-> NoRet]

\* ------------------------------------------------------------------------
\* The bucket (dao.S3Client) and the cache (sync.Map)
\* ------------------------------------------------------------------------
\* a bucket that keeps the old object and stores the new one beside it
PutObject_KeepOld(bucket, objectName, data) ==
    LET k2 == IF objectName \in DOMAIN bucket
              THEN Append(objectName, "v2") ELSE objectName
    IN  [k \in DOMAIN bucket \cup {k2} |-> IF k = k2 THEN data ELSE bucket[k]]

\* S3Client.PutObject: the object of that name is created or replaced
PutObject(bucket, objectName, data) ==
    [k \in DOMAIN bucket \cup {objectName} |->
        IF k = objectName THEN data ELSE bucket[k]]

\* S3Client.ListObjects: the names under the prefix
ListObjects(bucket, prefix) == {k \in DOMAIN bucket : HasPrefix(k, prefix)}

\* a cache that keeps the entry a key already has
CacheStore_KeepFirst(c, key, entry) ==
    [k \in DOMAIN c \cup {key} |-> IF k \in DOMAIN c THEN c[k] ELSE entry]

\* sync.Map.Store
CacheStore(c, key, entry) ==
    [k \in DOMAIN c \cup {key} |-> IF k = key THEN entry ELSE c[k]]

\* a set as a sequence, in the order the listing returns it
RECURSIVE SetToSeq(_)
SetToSeq(X) ==
    IF X = {} THEN <<>>
    ELSE LET x == CHOOSE y \in X : TRUE IN <<x>> \o SetToSeq(X \ {x})

\* a loop that stops one attempt short
RetryMore_OneShort(i) == i < RssMaxRetries

\* retryWithBackoff, the loop condition: i <= s.config.MaxRetries
RetryMore(i) == i <= RssMaxRetries

\* a wait that never looks at the context
Cancelled_Ignored(i, cancelAt) == FALSE

\* retryWithBackoff, the select before attempt i > 0: ctx.Done() is ready
\* when the context is done from the wait before attempt `cancelAt` on
Cancelled(i, cancelAt) == i > 0 /\ cancelAt # 0 /\ cancelAt <= i

\* retryWithBackoff: fn fails on its first `failures` calls; the context is
\* done from the wait before attempt `cancelAt` on (0: never).  The error of
\* the k-th call is named k; `retries` is the number the final error prints.
RECURSIVE retryFrom(_, _, _, _)
retryFrom(i, failures, cancelAt, calls) ==
    IF ~RetryMore(i)
    THEN [err |-> "exhausted", calls |-> calls, retries |-> RssMaxRetries, lastErr |-> calls]
    ELSE IF Cancelled(i, cancelAt)
    THEN [err |-> "ctx", calls |-> calls, retries |-> 0, lastErr |-> 0]
    ELSE IF calls + 1 <= failures THEN retryFrom(i + 1, failures, cancelAt, calls + 1)
    ELSE [err |-> "nil", calls |-> calls + 1, retries |-> 0, lastErr |-> 0]

retryWithBackoff(failures, cancelAt) == retryFrom(0, failures, cancelAt, 0)

\* ------------------------------------------------------------------------
\* RssService.StoreFeedItems
\* ------------------------------------------------------------------------
Storing(n) == {t \in Threads : frame[t].fn = "put" /\ frame[t].pc # "done" /\ frame[t].name = n}

\* entry of StoreFeedItems: one goroutine per item, errChan sized to the items
StoreFrames(t, ctx, feedName, items) ==
    [u \in Threads |->
          IF u = t
          THEN [NoFrame EXCEPT !.fn = "put", !.pc = "fan", !.name = feedName,
                               !.ctx = ctx, !.items = items, !.todo = DOMAIN items,
                               !.tries = [i \in DOMAIN items |-> 0],
                               !.rerun = lastOK[feedName].set
                                         /\ lastOK[feedName].items = items,
                               !.alone = (Storing(feedName) \ {t} = {})]
          ELSE IF u \in Storing(feedName)
               THEN [frame[u] EXCEPT !.alone = FALSE]
               ELSE frame[u]]

StoreBegin(t, ctx, feedName, items) ==
    /\ frame' = StoreFrames(t, ctx, feedName, items)
    /\ fresh' = [fresh EXCEPT ![feedName] = FALSE]

\* one goroutine of StoreFeedItems: derive the key, marshal, PutObject (one
\* call of s3Client.PutObject, counted in tries)
StoreUnit(t) ==
    /\ frame[t].fn = "put" /\ frame[t].pc = "fan"
    /\ \E i \in frame[t].todo, ok \in BOOLEAN :
          LET f == frame[t]
              feedItem == f.items[i]
              objectName == ItemKeyOf(f.name, feedItem)
          IN  /\ ok => ~ctxDone[f.ctx]
              /\ s3' = IF ok THEN PutObject(s3, objectName, Marshal(feedItem)) ELSE s3
              /\ frame' = [frame EXCEPT ![t].todo = @ \ {i},
                                         ![t].tries[i] = 1,
                                         ![t].errs = IF ok THEN @ ELSE Append(@, <<"put", i>>)]
    /\ UNCHANGED <<cache, web, lastOK, fresh>>
    /\ UNCHANGED schedVars

\* a Wait that returns before the goroutines are done
Waited_Early(t) == TRUE

\* a WaitGroup shared by all the calls of the service
Waited_AllCalls(t) == \A u \in Threads : frame[u].todo = {}

\* wg.Wait() returns: the goroutines of this call are done
Waited(t) == frame[t].todo = {}

\* an error check that lets failed writes pass
StoreFailed_Never(errChan) == FALSE

\* StoreFeedItems: if len(errChan) > 0
StoreFailed(errChan) == Len(errChan) > 0

\* wg.Wait, close(errChan), the error check and the cache refresh
StoreJoin(t) ==
    /\ frame[t].fn = "put" /\ frame[t].pc = "fan" /\ Waited(t)
    /\ LET f == frame[t] IN
         IF StoreFailed(f.errs)
         THEN /\ frame' = [frame EXCEPT ![t].pc = "done",
                                         ![t].ret = [status |-> "err", items |-> <<>>,
                                                    err |-> Head(f.errs)]]
              /\ UNCHANGED <<cache, lastOK, fresh>>
         ELSE /\ cache' = CacheStore(cache, ItemsKey(f.name),
                                     [rep |-> "gofeed", val |-> f.items])
              /\ frame' = [frame EXCEPT ![t].pc = "done",
                                         ![t].ret = [NoRet EXCEPT !.status = "ok"]]
              /\ lastOK' = [lastOK EXCEPT ![f.name] = [set |-> TRUE, items |-> f.items]]
              /\ fresh' = [fresh EXCEPT ![f.name] = (Storing(f.name) \ {t} = {})]
    /\ UNCHANGED <<s3, web>>
    /\ UNCHANGED schedVars

\* ------------------------------------------------------------------------
\* RssService.GetStoredFeedItems
\* ------------------------------------------------------------------------
\* the feed has a Job whose cycles succeeded once and are failing now
Failing(feedName) ==
    /\ feedName \in DOMAIN jobs
    /\ lastOK[feedName].set
    /\ job[jobs[feedName]].LastRun > 0
    /\ LET l == loop[jobs[feedName]]
       IN  \/ l.result = "fail"
           \/ l.pc = "attempt" /\ l.fetchFails + l.storeFails > 0

\* the cache check: cached.([]map[string]interface{}) panics on any other type
GetBegin(t, ctx, feedName) ==
    LET cacheKey == ItemsKey(feedName)
        base == [NoFrame EXCEPT !.fn = "get", !.name = feedName, !.ctx = ctx,
                                !.after = fresh[feedName],
                                !.hit = cacheKey \in DOMAIN cache,
                                !.during = Failing(feedName),
                                !.want = IF Failing(feedName)
                                         THEN lastOK[feedName].items ELSE <<>>]
    IN  /\ frame' = [frame EXCEPT ![t] =
              IF cacheKey \in DOMAIN cache
              THEN IF cache[cacheKey].rep = "maps"
                   THEN [base EXCEPT !.ret = [NoRet EXCEPT !.status = "ok",
                                                            !.items = cache[cacheKey].val]]
                   ELSE [base EXCEPT !.ret = [NoRet EXCEPT !.status = "panic"]]
              ELSE [base EXCEPT !.pc = "list"]]
        /\ UNCHANGED <<s3, cache, web, lastOK, fresh>>

\* ListObjects under the feed's prefix; one goroutine per listed key
GetList(t) ==
    /\ frame[t].fn = "get" /\ frame[t].pc = "list"
    /\ \E ok \in BOOLEAN :
          /\ ok => ~ctxDone[frame[t].ctx]
          /\ frame' = [frame EXCEPT ![t] =
                IF ok
                THEN LET objectInfos == SetToSeq(ListObjects(s3, Prefix(@.name)))
                     IN  [@ EXCEPT !.pc = "fan", !.keys = objectInfos,
                                   !.todo = DOMAIN objectInfos]
                ELSE [@ EXCEPT !.pc = "done",
                               !.ret = [status |-> "err", items |-> <<>>,
                                        err |-> <<"list">>]]]
    /\ UNCHANGED <<s3, cache, web, lastOK, fresh>>
    /\ UNCHANGED schedVars

\* one goroutine of GetStoredFeedItems: GetObject under retry, ReadAll, Unmarshal
GetUnit(t) ==
    /\ frame[t].fn = "get" /\ frame[t].pc = "fan"
    /\ \E i \in frame[t].todo, failures \in 0..(RssMaxRetries + 1),
          cancelAt \in 0..RssMaxRetries, decoded \in BOOLEAN :
          LET f == frame[t]
              done == ctxDone[f.ctx]
              r == retryWithBackoff(failures, cancelAt)
          IN  /\ done => cancelAt = 1
              /\ cancelAt # 0 => failures = RssMaxRetries + 1
              /\ r.err # "nil" => decoded
              /\ frame' = [frame EXCEPT
                  ![t].todo = @ \ {i},
                  ![t].retry = [err |-> r.err, calls |-> r.calls, retries |-> r.retries,
                                lastErr |-> r.lastErr, failures |-> failures,
                                cancelAt |-> cancelAt],
                  ![t].got = IF r.err = "nil" /\ decoded
                             THEN Append(@, s3[f.keys[i]]) ELSE @,
                  ![t].errs = IF r.err = "nil" /\ decoded
                              THEN @
                              ELSE Append(@, <<IF r.err = "nil" THEN "read" ELSE r.err, i>>)]
              /\ ctxDone' = IF cancelAt # 0 THEN [ctxDone EXCEPT ![f.ctx] = TRUE]
                             ELSE ctxDone
    /\ UNCHANGED <<s3, cache, web, lastOK, fresh>>
    /\ UNCHANGED <<jobs, job, loop, mu, call, now>>

\* item["custom"].(map[string]interface{})["summary"]: panics without "custom"
MergeOK(item) == "custom" \in DOMAIN item

MergeItem(item) ==
    IF \E p \in item.custom : p[1] = "summary"
    THEN [k \in DOMAIN item \cup {"summary"} |->
            IF k = "summary"
            THEN (CHOOSE p \in item.custom : p[1] = "summary")[2]
            ELSE item[k]]
    ELSE item

\* an error check that lets failed reads pass
ReadFailed_Never(errChan) == FALSE

\* GetStoredFeedItems: if len(errChan) > 0
ReadFailed(errChan) == Len(errChan) > 0

\* wg.Wait, the error check, the merge and the cache refresh
GetJoin(t) ==
    /\ frame[t].fn = "get" /\ frame[t].pc = "fan" /\ Waited(t)
    /\ LET f == frame[t] IN
         IF ReadFailed(f.errs)
         THEN /\ frame' = [frame EXCEPT ![t].pc = "done",
                                         ![t].ret = [status |-> "err", items |-> <<>>,
                                                    err |-> Head(f.errs)]]
              /\ UNCHANGED cache
         ELSE IF \E i \in DOMAIN f.got : ~MergeOK(f.got[i])
         THEN /\ frame' = [frame EXCEPT ![t].pc = "done",
                                         ![t].ret = [NoRet EXCEPT !.status = "panic"]]
              /\ UNCHANGED cache
         ELSE LET items == [i \in DOMAIN f.got |-> MergeItem(f.got[i])]
              IN  /\ cache' = CacheStore(cache, ItemsKey(f.name),
                                         [rep |-> "maps", val |-> items])
                  /\ frame' = [frame EXCEPT ![t].pc = "done",
                                             ![t].ret = [NoRet EXCEPT !.status = "ok",
                                                                  !.items = items]]
    /\ UNCHANGED <<s3, web, lastOK, fresh>>
    /\ UNCHANGED schedVars

\* ------------------------------------------------------------------------
\* Initial state: NewRssService, NewSchedulerService, an empty bucket
\* ------------------------------------------------------------------------
EmptyMap == [k \in {} |-> 0]

\* error values: nil, or a message, a count and the wrapped cause
NilErr == [msg |-> "nil", n |-> 0, cause |-> "nil"]

NoJob == [Feed |-> [Name |-> "", RssFeed |-> ""], StopChan |-> "none", LastRun |-> 0, Error |-> NilErr, ctx |-> "app"]

\* pc, i, lastErr, items: the goroutine's position and locals; served, attempts,
\* fetchFails, storeFails, result, prevRun, byTick: history of its current cycle
NoLoop == [pc |-> "none", i |-> 0, lastErr |-> "nil", items |-> <<>>, served |-> <<>>,
           attempts |-> 0, fetchFails |-> 0, storeFails |-> 0, result |-> "none",
           prevRun |-> 0, byTick |-> FALSE]

NoCall == [op |-> "none", pc |-> "idle", name |-> "", ctx |-> "app", ret |-> "none",
           job |-> 0, status |-> [found |-> FALSE]]

Init ==
    /\ s3 = EmptyMap
    /\ cache = EmptyMap
    /\ web = [u \in Urls |-> <<ItemD>>]
    /\ frame = [t \in Threads |-> NoFrame]
    /\ lastOK = [n \in Names |-> [set |-> FALSE, items |-> <<>>]]
    /\ fresh = [n \in Names |-> FALSE]
    /\ jobs = EmptyMap
    /\ job = [j \in JobIds |-> NoJob]
    /\ loop = [j \in JobIds |-> NoLoop]
    /\ mu = <<>>
    /\ call = [c \in Callers |-> NoCall]
    /\ ctxDone = [x \in Ctxs |-> FALSE]
    /\ now = 1

\* ------------------------------------------------------------------------
\* The item store called directly (the callers of a test or of the HTTP layer)
\* ------------------------------------------------------------------------
StoreCallers == {<<"c", 1>>}

StoreNames == {"f1"}

CallStoreFeedItems(t, feedName, items) ==
    /\ frame[t].pc = "done"
    /\ StoreBegin(t, "app", feedName, items)
    /\ UNCHANGED <<s3, cache, web, lastOK>>
    /\ UNCHANGED schedVars

CallGetStoredFeedItems(t, feedName) ==
    /\ frame[t].pc = "done"
    /\ GetBegin(t, "app", feedName)
    /\ UNCHANGED schedVars

NextStore ==
    \/ \E t \in StoreCallers, n \in StoreNames, items \in ItemLists :
          CallStoreFeedItems(t, n, items)
    \/ \E t \in StoreCallers, n \in StoreNames : CallGetStoredFeedItems(t, n)
    \/ \E t \in StoreCallers : StoreUnit(t)
    \/ \E t \in StoreCallers : StoreJoin(t)
    \/ \E t \in StoreCallers : GetList(t)
    \/ \E t \in StoreCallers : GetUnit(t)
    \/ \E t \in StoreCallers : GetJoin(t)

SpecStore == Init /\ [][NextStore]_vars

\* two callers, each storing and reading the items of its own feed
PairCallers == {<<"c", 1>>, <<"c", 2>>}

NameOf(t) == IF t = <<"c", 1>> THEN "f1" ELSE "f2"

PairLists == {<<ItemD>>, <<ItemD, ItemC>>}

\* the next step of the call thread t is in
StepOf(t) ==
    \/ StoreUnit(t)
    \/ StoreJoin(t)
    \/ GetList(t)
    \/ GetUnit(t)
    \/ GetJoin(t)

NextPair ==
    \/ \E t \in PairCallers, items \in PairLists : CallStoreFeedItems(t, NameOf(t), items)
    \/ \E t \in PairCallers : CallGetStoredFeedItems(t, NameOf(t))
    \/ \E t \in PairCallers : StepOf(t)

SpecPair == Init /\ [][NextPair]_vars

\* StoreFeedItems on items with long identifiers
NextKey ==
    \/ \E t \in StoreCallers, n \in StoreNames, items \in KeyItemLists :
          CallStoreFeedItems(t, n, items)
    \/ \E t \in StoreCallers : StoreUnit(t)
    \/ \E t \in StoreCallers : StoreJoin(t)

SpecKey == Init /\ [][NextKey]_vars

\* ------------------------------------------------------------------------
\* SchedulerService: the registry calls. A call starts when it gets the lock;
\* a read-locked section is a single step, so only the writer is recorded.
\* ------------------------------------------------------------------------
SchedOps == {"StartJob", "StopJob", "StopAllJobs", "GetJobStatus"}

Allocated == {j \in JobIds : job[j].StopChan # "none"}

Starting == {c \in Callers : call[c].pc = "insert"}

\* a delete that leaves the entry in the map
Remove_Keep(f, x) == f

\* delete(s.jobs, feedName)
Remove(f, x) == [k \in DOMAIN f \ {x} |-> f[k]]

\* a Lock that does not exclude other holders
CanLock_NoExclusion(c) == TRUE

\* s.mu.Lock() can return
CanLock(c) == mu = <<>>

\* s.mu.RLock() can return
CanRLock(c) == mu = <<>>

\* the deferred s.mu.Unlock()
Unlocked(c) == IF mu = c THEN <<>> ELSE mu

Entered(c, op, name, ctx) ==
    [NoCall EXCEPT !.op = op, !.name = name, !.ctx = ctx]

\* the Job a new loop starts on: entry of runUpdateLoop and of its first updateFeed
\* a loop that waits for its first tick
FirstCycle_Wait(j) == [NoLoop EXCEPT !.pc = "select"]

FirstCycle(j) == [NoLoop EXCEPT !.pc = "attempt"]

\* StartJob without the exists check
StartJob_NoCheck(c, name, ctx) ==
    /\ call[c].pc = "idle"
    /\ CanLock(c)
    /\ Cardinality(Allocated) + Cardinality(Starting) < MaxJobs
    /\ call' = [call EXCEPT ![c] =
          [Entered(c, "StartJob", name, ctx) EXCEPT !.pc = "insert"]]
    /\ mu' = c
    /\ UNCHANGED <<jobs, job, loop, ctxDone, now>>
    /\ UNCHANGED storeVars

\* StartJob up to the exists check: the early return, or on to the insertion
StartJob(c, name, ctx) ==
    /\ call[c].pc = "idle"
    /\ CanLock(c)
    /\ Cardinality(Allocated) + Cardinality(Starting) < MaxJobs
    /\ IF name \in DOMAIN jobs
       THEN /\ call' = [call EXCEPT ![c] =
                  [Entered(c, "StartJob", name, ctx) EXCEPT !.ret = "AlreadyExists"]]
            /\ mu' = mu
       ELSE /\ call' = [call EXCEPT ![c] =
                  [Entered(c, "StartJob", name, ctx) EXCEPT !.pc = "insert"]]
            /\ mu' = c
    /\ UNCHANGED <<jobs, job, loop, ctxDone, now>>
    /\ UNCHANGED storeVars

\* StartJob: the Job is created and registered, its loop launched
StartJobInsert(c) ==
    /\ call[c].pc = "insert"
    /\ Allocated # JobIds
    /\ LET j == CHOOSE x \in JobIds \ Allocated : \A y \in JobIds \ Allocated : x <= y
       IN  /\ job' = [job EXCEPT ![j] = [Feed |-> Feed(call[c].name), StopChan |-> "open",
                                         LastRun |-> 0, Error |-> NilErr,
                                         ctx |-> call[c].ctx]]
           /\ jobs' = CacheStore(jobs, call[c].name, j)
           /\ loop' = [loop EXCEPT ![j] = FirstCycle(j)]
           /\ call' = [call EXCEPT ![c].pc = "idle", ![c].ret = "nil"]
    /\ mu' = Unlocked(c)
    /\ UNCHANGED <<ctxDone, now>>
    /\ UNCHANGED storeVars

\* StopJob up to the lookup: the early return, or on to the close
StopJob(c, name) ==
    /\ call[c].pc = "idle"
    /\ CanLock(c)
    /\ IF name \in DOMAIN jobs
       THEN /\ call' = [call EXCEPT ![c] =
                  [Entered(c, "StopJob", name, "app") EXCEPT !.pc = "close",
                                                            !.job = jobs[name]]]
            /\ mu' = c
       ELSE /\ call' = [call EXCEPT ![c] =
                  [Entered(c, "StopJob", name, "app") EXCEPT !.ret = "NotFound"]]
            /\ mu' = mu
    /\ UNCHANGED <<jobs, job, loop, ctxDone, now>>
    /\ UNCHANGED storeVars

\* StopJob that closes the channel and forgets the delete
StopJobClose_NoDelete(c) ==
    /\ call[c].pc = "close"
    /\ job' = [job EXCEPT ![call[c].job].StopChan = "closed"]
    /\ call' = [call EXCEPT ![c].pc = "idle", ![c].ret = "nil", ![c].job = 0]
    /\ mu' = Unlocked(c)
    /\ UNCHANGED <<jobs, loop, ctxDone, now>>
    /\ UNCHANGED storeVars

\* StopJob that stops every registered Job
StopJobClose_All(c) ==
    /\ call[c].pc = "close"
    /\ job' = [j \in JobIds |->
                 IF job[j].StopChan = "open"
                 THEN [job[j] EXCEPT !.StopChan = "closed"] ELSE job[j]]
    /\ jobs' = EmptyMap
    /\ call' = [call EXCEPT ![c].pc = "idle", ![c].ret = "nil", ![c].job = 0]
    /\ mu' = Unlocked(c)
    /\ UNCHANGED <<loop, ctxDone, now>>
    /\ UNCHANGED storeVars

\* StopJob: close(job.StopChan) and delete(s.jobs, feedName); closing a closed
\* channel panics and the deferred Unlock still runs
StopJobClose(c) ==
    /\ call[c].pc = "close"
    /\ LET j == call[c].job IN
         IF job[j].StopChan = "closed"
         THEN /\ call' = [call EXCEPT ![c].pc = "idle", ![c].ret = "panic", ![c].job = 0]
              /\ UNCHANGED <<job, jobs>>
         ELSE /\ job' = [job EXCEPT ![j].StopChan = "closed"]
              /\ jobs' = Remove(jobs, call[c].name)
              /\ call' = [call EXCEPT ![c].pc = "idle", ![c].ret = "nil", ![c].job = 0]
    /\ mu' = Unlocked(c)
    /\ UNCHANGED <<loop, ctxDone, now>>
    /\ UNCHANGED storeVars

\* StopAllJobs takes the lock
StopAllJobs(c) ==
    /\ call[c].pc = "idle"
    /\ CanLock(c)
    /\ call' = [call EXCEPT ![c] = [Entered(c, "StopAllJobs", "", "app") EXCEPT !.pc = "range"]]
    /\ mu' = c
    /\ UNCHANGED <<jobs, job, loop, ctxDone, now>>
    /\ UNCHANGED storeVars

\* StopAllJobs: one iteration of the range over s.jobs, or its end
StopAllJobsStep(c) ==
    /\ call[c].pc = "range"
    /\ IF DOMAIN jobs = {}
       THEN /\ call' = [call EXCEPT ![c].pc = "idle", ![c].ret = "nil"]
            /\ mu' = Unlocked(c)
            /\ UNCHANGED <<job, jobs>>
       ELSE \E feedName \in DOMAIN jobs :
              LET j == jobs[feedName] IN
              IF job[j].StopChan = "closed"
              THEN /\ call' = [call EXCEPT ![c].pc = "idle", ![c].ret = "panic"]
                   /\ mu' = Unlocked(c)
                   /\ UNCHANGED <<job, jobs>>
              ELSE /\ job' = [job EXCEPT ![j].StopChan = "closed"]
                   /\ jobs' = Remove(jobs, feedName)
                   /\ UNCHANGED <<call, mu>>
    /\ UNCHANGED <<loop, ctxDone, now>>
    /\ UNCHANGED storeVars

\* GetJobStatus: the lookup under the read lock
GetJobStatus(c, name) ==
    /\ call[c].pc = "idle"
    /\ CanRLock(c)
    /\ call' = [call EXCEPT ![c] =
          IF name \in DOMAIN jobs
          THEN [Entered(c, "GetJobStatus", name, "app") EXCEPT !.pc = "read",
                                                              !.job = jobs[name]]
          ELSE [Entered(c, "GetJobStatus", name, "app") EXCEPT !.ret = "NotFound"]]
    /\ UNCHANGED <<jobs, job, loop, mu, ctxDone, now>>
    /\ UNCHANGED storeVars

\* is_active reported only while a cycle is executing
IsActive_WhileRunning(j) == loop[j].pc \in {"attempt", "store"}

\* is_active of the status handler
IsActive(j) == TRUE

\* GET /feeds/:name/status: the handler builds the status from the Job
StatusHandler(c) ==
    /\ call[c].pc = "read"
    /\ LET j == call[c].job IN
         call' = [call EXCEPT ![c].pc = "idle", ![c].ret = "nil",
                              ![c].status = [found |-> TRUE, name |-> job[j].Feed.Name,
                                             last_run |-> job[j].LastRun,
                                             is_active |-> IsActive(j),
                                             error |-> job[j].Error]]
    /\ UNCHANGED <<jobs, job, loop, mu, ctxDone, now>>
    /\ UNCHANGED storeVars

\* a ParseFeed that caches an empty feed for a source it could not fetch
ParseFeed_CachesFailure(url) ==
    IF UrlKey(url) \in DOMAIN cache /\ cache[UrlKey(url)].rep = "feed"
    THEN {[err |-> "nil", feed |-> cache[UrlKey(url)].val, cache |-> cache]}
    ELSE {[err |-> "nil", feed |-> web[url],
           cache |-> CacheStore(cache, UrlKey(url), [rep |-> "feed", val |-> web[url]])],
          [err |-> "failed to fetch feed", feed |-> <<>>,
           cache |-> CacheStore(cache, UrlKey(url), [rep |-> "feed", val |-> <<>>])]}

\* ------------------------------------------------------------------------
\* runUpdateLoop and updateFeed, the goroutine of one Job
\* ------------------------------------------------------------------------
\* RssService.ParseFeed: the outcomes of one call, each with the cache it leaves
ParseFeed(url) ==
    IF UrlKey(url) \in DOMAIN cache /\ cache[UrlKey(url)].rep = "feed"
    THEN {[err |-> "nil", feed |-> cache[UrlKey(url)].val, cache |-> cache]}
    ELSE {[err |-> "nil", feed |-> web[url],
           cache |-> CacheStore(cache, UrlKey(url), [rep |-> "feed", val |-> web[url]])],
          [err |-> "failed to fetch feed", feed |-> <<>>, cache |-> cache]}

\* an exhaustion error that drops the underlying failure
RetriesExhausted_Unwrapped(lastErr) ==
    [msg |-> "failed after retries", n |-> MaxRetries, cause |-> "nil"]

\* fmt.Errorf("failed after %d retries: %w", s.config.MaxRetries, lastErr)
RetriesExhausted(lastErr) ==
    [msg |-> "failed after retries", n |-> MaxRetries, cause |-> lastErr]

\* the loop bound one attempt short
MoreAttempts_OneLess(i) == i < MaxRetries - 1

\* the bound of updateFeed's for loop
MoreAttempts(i) == i < MaxRetries

\* a success that leaves the recorded error in place
Succeeded_KeepError(jb, t) == [jb EXCEPT !.LastRun = t]

\* updateFeed, success: job.LastRun = time.Now(); job.Error = nil
Succeeded(jb, t) == [jb EXCEPT !.LastRun = t, !.Error = NilErr]

\* entry of updateFeed on a tick
BeginCycle(j) ==
    loop' = [loop EXCEPT ![j] = [NoLoop EXCEPT !.pc = "attempt", !.byTick = TRUE,
                                               !.prevRun = job[j].LastRun]]

\* select: case <-ticker.C
LoopTick(j) ==
    /\ loop[j].pc = "select"
    /\ now < MaxTime
    /\ now' = now + 1
    /\ BeginCycle(j)
    /\ UNCHANGED <<jobs, job, mu, call, ctxDone>>
    /\ UNCHANGED storeVars

\* a select without the case <-job.StopChan
Signalled_CtxOnly(j) == ctxDone[job[j].ctx]

\* the select's cases <-ctx.Done() and <-job.StopChan: one of them is ready
Signalled(j) == ctxDone[job[j].ctx] \/ job[j].StopChan = "closed"

\* select: case <-ctx.Done() and case <-job.StopChan
LoopExit(j) ==
    /\ loop[j].pc = "select"
    /\ Signalled(j)
    /\ loop' = [loop EXCEPT ![j].pc = "exit"]
    /\ UNCHANGED <<jobs, job, mu, call, ctxDone, now>>
    /\ UNCHANGED storeVars

\* one pass of updateFeed's for loop up to the call of StoreFeedItems, or the
\* return after the loop with runUpdateLoop recording the error
UpdateAttempt(j) ==
    /\ loop[j].pc = "attempt"
    /\ IF MoreAttempts(loop[j].i)
       THEN \E r \in ParseFeed(job[j].Feed.RssFeed) :
              /\ cache' = r.cache
              /\ IF r.err # "nil"
                 THEN /\ loop' = [loop EXCEPT ![j].lastErr = "failed to parse feed",
                                              ![j].i = @ + 1,
                                              ![j].attempts = @ + 1,
                                              ![j].fetchFails = @ + 1]
                      /\ UNCHANGED <<frame, fresh>>
                 ELSE /\ loop' = [loop EXCEPT ![j].pc = "store",
                                              ![j].items = r.feed,
                                              ![j].served = web[job[j].Feed.RssFeed],
                                              ![j].attempts = @ + 1]
                      /\ StoreBegin(LoopThread(j), job[j].ctx, job[j].Feed.Name, r.feed)
              /\ UNCHANGED job
       ELSE /\ job' = [job EXCEPT ![j].Error = RetriesExhausted(loop[j].lastErr)]
            /\ loop' = [loop EXCEPT ![j].pc = "select", ![j].result = "fail"]
            /\ UNCHANGED <<cache, frame, fresh>>
    /\ UNCHANGED <<s3, web, lastOK, jobs, mu, call, ctxDone, now>>

\* StoreFeedItems has returned: failure sleeps and retries, success records the run
UpdateStored(j) ==
    /\ loop[j].pc = "store"
    /\ frame[LoopThread(j)].pc = "done"
    /\ frame' = [frame EXCEPT ![LoopThread(j)] = NoFrame]
    /\ IF frame[LoopThread(j)].ret.status = "ok"
       THEN /\ job' = [job EXCEPT ![j] = Succeeded(job[j], now)]
            /\ loop' = [loop EXCEPT ![j].pc = "select", ![j].result = "ok"]
       ELSE /\ loop' = [loop EXCEPT ![j].pc = "attempt",
                                    ![j].lastErr = "failed to store feed items",
                                    ![j].i = @ + 1,
                                    ![j].storeFails = @ + 1]
            /\ UNCHANGED job
    /\ UNCHANGED <<s3, cache, web, lastOK, fresh, jobs, mu, call, ctxDone, now>>

\* ------------------------------------------------------------------------
\* Environment: the sources change, a context is cancelled
\* ------------------------------------------------------------------------
WebVersions == {<<ItemD>>, <<ItemA, ItemC>>}

SourceChange(u) ==
    /\ \E v \in WebVersions \ {web[u]} : web' = [web EXCEPT ![u] = v]
    /\ UNCHANGED <<s3, cache, frame, lastOK, fresh>>
    /\ UNCHANGED schedVars

Cancel(x) ==
    /\ ~ctxDone[x]
    /\ ctxDone' = [ctxDone EXCEPT ![x] = TRUE]
    /\ UNCHANGED <<jobs, job, loop, mu, call, now>>
    /\ UNCHANGED storeVars

\* ------------------------------------------------------------------------
\* RssService.UpdateFeed: parse, summarize each item, store
\* ------------------------------------------------------------------------
\* AiService.Summarize: a summary, or the error after its own retries
Summarize == {[err |-> "nil", summary |-> "s2"],
              [err |-> "failed to summarize", summary |-> ""]}

\* items[i].Custom["summary"] = summary
WithSummary(item, summary) ==
    [item EXCEPT !.custom = {p \in @ : p[1] # "summary"} \cup {<<"summary", summary>>}]

\* the items are pointers: the cached feed and the cached item list that hold
\* the same items see the assignment
Aliased(c, old, new) ==
    [key \in DOMAIN c |->
        IF c[key].rep \in {"feed", "gofeed"} /\ c[key].val = old
        THEN [c[key] EXCEPT !.val = new] ELSE c[key]]

CallUpdateFeed(t, feed) ==
    /\ frame[t].pc = "done"
    /\ frame' = [frame EXCEPT ![t] =
          IF feed.RssFeed = ""
          THEN [NoFrame EXCEPT !.fn = "update", !.name = feed.Name, !.outer = "update",
                               !.ret = [status |-> "err", items |-> <<>>,
                                        err |-> <<"url">>]]
          ELSE [NoFrame EXCEPT !.fn = "update", !.pc = "parse", !.name = feed.Name,
                               !.outer = "update"]]
    /\ UNCHANGED <<s3, cache, web, lastOK, fresh>>
    /\ UNCHANGED schedVars

\* s.ParseFeed(ctx, feed.RssFeed) and the early return on its error
UpdateParse(t) ==
    /\ frame[t].fn = "update" /\ frame[t].pc = "parse"
    /\ \E r \in ParseFeed(FeedURL(frame[t].name)) :
          /\ cache' = r.cache
          /\ frame' = [frame EXCEPT ![t] =
                IF r.err # "nil"
                THEN [@ EXCEPT !.pc = "done",
                               !.ret = [status |-> "err", items |-> <<>>,
                                        err |-> <<"parse">>]]
                ELSE [@ EXCEPT !.pc = "annotate", !.items = r.feed,
                               !.fetched = r.feed, !.k = 1]]
    /\ UNCHANGED <<s3, web, lastOK, fresh>>
    /\ UNCHANGED schedVars

\* a range that returns the error of a failed Summarize
UpdateAnnotate_Abort(t) ==
    /\ frame[t].fn = "update" /\ frame[t].pc = "annotate"
    /\ frame[t].k <= Len(frame[t].items)
    /\ \E r \in Summarize :
          LET f == frame[t]
              i == f.k
              items == IF r.err # "nil" THEN f.items
                       ELSE [f.items EXCEPT ![i] = WithSummary(@, r.summary)]
          IN  /\ frame' = [frame EXCEPT ![t] =
                    IF r.err # "nil"
                    THEN [@ EXCEPT !.pc = "done", !.asked = @ \cup {i},
                                   !.ret = [status |-> "err", items |-> <<>>,
                                            err |-> <<"summarize", i>>]]
                    ELSE [@ EXCEPT !.items = items, !.k = i + 1,
                                   !.asked = @ \cup {i}]]
              /\ cache' = Aliased(cache, f.items, items)
    /\ UNCHANGED <<s3, web, lastOK, fresh>>
    /\ UNCHANGED schedVars

\* one pass of the range over the items: Summarize, continue on its error
UpdateAnnotate(t) ==
    /\ frame[t].fn = "update" /\ frame[t].pc = "annotate"
    /\ frame[t].k <= Len(frame[t].items)
    /\ \E r \in Summarize :
          LET f == frame[t]
              i == f.k
              items == IF r.err # "nil" THEN f.items
                       ELSE [f.items EXCEPT ![i] = WithSummary(@, r.summary)]
          IN  /\ frame' = [frame EXCEPT ![t].items = items,
                                         ![t].k = i + 1,
                                         ![t].asked = @ \cup {i},
                                         ![t].failed = IF r.err # "nil"
                                                       THEN @ \cup {i} ELSE @]
              /\ cache' = Aliased(cache, f.items, items)
    /\ UNCHANGED <<s3, web, lastOK, fresh>>
    /\ UNCHANGED schedVars

\* after the range: s.StoreFeedItems(ctx, feed.Name, items)
UpdateStore(t) ==
    /\ frame[t].fn = "update" /\ frame[t].pc = "annotate"
    /\ frame[t].k > Len(frame[t].items)
    /\ LET f == frame[t] IN
         /\ frame' = [StoreFrames(t, f.ctx, f.name, f.items) EXCEPT
                         ![t].outer = "update", ![t].k = f.k, ![t].fetched = f.fetched,
                         ![t].asked = f.asked, ![t].failed = f.failed]
         /\ fresh' = [fresh EXCEPT ![f.name] = FALSE]
    /\ UNCHANGED <<s3, cache, web, lastOK>>
    /\ UNCHANGED schedVars

\* UpdateFeed called on a feed whose source may change
NextUpdate ==
    \/ \E t \in StoreCallers, n \in StoreNames : CallUpdateFeed(t, Feed(n))
    \/ \E t \in StoreCallers : UpdateParse(t)
    \/ \E t \in StoreCallers : UpdateAnnotate(t)
    \/ \E t \in StoreCallers : UpdateStore(t)
    \/ \E t \in StoreCallers : StoreUnit(t)
    \/ \E t \in StoreCallers : StoreJoin(t)
    \/ \E n \in StoreNames : SourceChange(FeedURL(n))

SpecUpdate == Init /\ [][NextUpdate]_vars

\* ------------------------------------------------------------------------
\* The scheduler with its loops
\* ------------------------------------------------------------------------
SchedNames == {"f1"}

SchedCallers == {<<"c", 1>>}

\* the calls of the registry made by the callers C
StartCalls(C) ==
    \/ \E c \in C, n \in SchedNames, x \in Ctxs : StartJob(c, n, x)
    \/ \E c \in C : StartJobInsert(c)

StopCalls(C) ==
    \/ \E c \in C, n \in SchedNames : StopJob(c, n)
    \/ \E c \in C : StopJobClose(c)

StopAllCalls(C) ==
    \/ \E c \in C : StopAllJobs(c)
    \/ \E c \in C : StopAllJobsStep(c)

StatusCalls(C) ==
    \/ \E c \in C, n \in SchedNames : GetJobStatus(c, n)
    \/ \E c \in C : StatusHandler(c)

\* the cycles of the loops
Cycles ==
    \/ \E j \in JobIds : UpdateAttempt(j)
    \/ \E j \in JobIds : StoreUnit(LoopThread(j))
    \/ \E j \in JobIds : StoreJoin(LoopThread(j))
    \/ \E j \in JobIds : UpdateStored(j)
    \/ \E j \in JobIds : LoopExit(j)

\* one caller, every call of the scheduler, ticks and cancellation
NextSched ==
    \/ StartCalls(SchedCallers)
    \/ StopCalls(SchedCallers)
    \/ StopAllCalls(SchedCallers)
    \/ StatusCalls(SchedCallers)
    \/ Cycles
    \/ \E j \in JobIds : LoopTick(j)
    \/ \E x \in Ctxs : Cancel(x)

Spec == Init /\ [][NextSched]_vars

\* concurrent callers of the registry, each loop up to its first wait
NextReg ==
    \/ StartCalls(Callers)
    \/ StopCalls(Callers)
    \/ StopAllCalls(Callers)
    \/ StatusCalls(Callers)
    \/ Cycles

SpecReg == Init /\ [][NextReg]_vars

\* the cycles of a feed whose source changes
NextCycle ==
    \/ StartCalls(SchedCallers)
    \/ Cycles
    \/ \E j \in JobIds : LoopTick(j)
    \/ \E u \in {FeedURL(n) : n \in SchedNames} : SourceChange(u)
    \/ \E x \in Ctxs : Cancel(x)

SpecCycle == Init /\ [][NextCycle]_vars

\* the Jobs of two feeds, started and stopped one by one
NextTwo ==
    \/ \E c \in SchedCallers, n \in Names, x \in Ctxs : StartJob(c, n, x)
    \/ \E c \in SchedCallers : StartJobInsert(c)
    \/ \E c \in SchedCallers, n \in Names : StopJob(c, n)
    \/ \E c \in SchedCallers : StopJobClose(c)
    \/ Cycles

SpecTwo == Init /\ [][NextTwo]_vars

\* the cycles of a feed and a reader of its stored items
NextServe ==
    \/ StartCalls(SchedCallers)
    \/ Cycles
    \/ \E j \in JobIds : LoopTick(j)
    \/ \E t \in StoreCallers, n \in SchedNames : CallGetStoredFeedItems(t, n)
    \/ \E t \in StoreCallers : GetList(t)
    \/ \E t \in StoreCallers : GetUnit(t)
    \/ \E t \in StoreCallers : GetJoin(t)
    \/ \E x \in Ctxs : Cancel(x)

SpecServe == Init /\ [][NextServe]_vars

\* concurrent callers that start and stop the Jobs of two feeds and stop all
NextStopAll ==
    \/ \E c \in Callers, n \in Names, x \in Ctxs : StartJob(c, n, x)
    \/ \E c \in Callers : StartJobInsert(c)
    \/ \E c \in Callers, n \in Names : StopJob(c, n)
    \/ \E c \in Callers : StopJobClose(c)
    \/ StopAllCalls(Callers)

SpecStopAll == Init /\ [][NextStopAll]_vars

\* one feed started, stopped and cancelled; its loop's calls return (weak
\* fairness of the steps of a cycle) and the select, which picks among its
\* ready cases at random, does not pass over a ready signal forever
NextLive ==
    \/ StartCalls(SchedCallers)
    \/ StopCalls(SchedCallers)
    \/ Cycles
    \/ \E j \in JobIds : LoopTick(j)
    \/ \E x \in Ctxs : Cancel(x)

LoopFair(j) ==
    /\ WF_vars(UpdateAttempt(j))
    /\ WF_vars(StoreUnit(LoopThread(j)))
    /\ WF_vars(StoreJoin(LoopThread(j)))
    /\ WF_vars(UpdateStored(j))
    /\ SF_vars(LoopExit(j))

SpecLive == Init /\ [][NextLive]_vars /\ \A j \in JobIds : LoopFair(j)

\* ========================================================================
\* Claims
\* ========================================================================
StripSummary(m) == [k \in DOMAIN m \ {"summary"} |-> m[k]]

Count(seq, x) == Cardinality({i \in DOMAIN seq : seq[i] = x})

\* the returned maps are the stored items, as a bag
SameItems(got, items) ==
    LET a == [i \in DOMAIN got |-> StripSummary(got[i])]
        b == [i \in DOMAIN items |-> Marshal(items[i])]
    IN  /\ Len(a) = Len(b)
        /\ \A x \in Range(a) \cup Range(b) : Count(a, x) = Count(b, x)

GetDone(t) == frame[t].fn = "get" /\ frame[t].pc = "done"

StoreDone(t) == frame[t].fn = "put" /\ frame[t].pc = "done"

\* C5: a GetStoredFeedItems that follows a successful StoreFeedItems of the same
\* feed, and meets no backend error, returns exactly the stored items (as a bag).
C5_GetAfterStoreReturnsItems ==
    \A t \in Threads :
        (GetDone(t) /\ frame[t].after /\ frame[t].ret.status # "err")
        => /\ frame[t].ret.status = "ok"
           /\ SameItems(frame[t].ret.items, lastOK[frame[t].name].items)

\* C6: a StoreFeedItems that repeats the latest successful StoreFeedItems of the
\* feed (same item list) never changes the set of object names in the bucket.
C6_RerunKeepsKeys ==
    [][\A t \in Threads :
          (frame[t].fn = "put" /\ frame[t].rerun /\ frame'[t].fn = "put"
             /\ frame'[t].todo # frame[t].todo)
          => DOMAIN s3' = DOMAIN s3]_vars

C6_Witness ==
    \E t \in Threads :
        /\ StoreDone(t) /\ frame[t].rerun /\ frame[t].ret.status = "ok"
        /\ Len(frame[t].items) = 2
        /\ Cardinality(ListObjects(s3, Prefix(frame[t].name))) = 2

\* C7: when a StoreFeedItems that no other store of the feed overlapped has
\* succeeded, the objects under the feed's prefix are exactly those of its items.
C7_StoreReplacesObjects ==
    \A t \in Threads :
        (StoreDone(t) /\ frame[t].ret.status = "ok" /\ frame[t].alone)
        => ListObjects(s3, Prefix(frame[t].name)) = KeysOf(frame[t].name, frame[t].items)

\* C1: a StartJob for a name that has a registered Job returns AlreadyExists and
\* changes neither the registry, nor any Job (stop signal, last run, last error),
\* nor any loop: no loop is launched.
C1_DuplicateStartJob ==
    [][\A c \in Callers, n \in Names, x \in Ctxs :
          (StartJob(c, n, x) /\ n \in DOMAIN jobs)
          => /\ call'[c].ret = "AlreadyExists" /\ call'[c].pc = "idle"
             /\ jobs' = jobs /\ job' = job /\ loop' = loop]_vars

C1_Witness ==
    \E c \in Callers :
        /\ call[c].op = "StartJob" /\ call[c].pc = "idle"
        /\ call[c].ret = "AlreadyExists"
        /\ call[c].name \in DOMAIN jobs
        /\ job[jobs[call[c].name]].LastRun > 0
        /\ job[jobs[call[c].name]].StopChan = "open"

LiveJobs(n) == {j \in JobIds : job[j].Feed.Name = n /\ job[j].StopChan = "open"}

\* C2: under concurrent StartJob, StopJob and StopAllJobs calls, the Jobs of a
\* name that were created and not stopped are at most one, the registered one:
\* every successful StartJob beyond it was matched by a removal; and a StartJob
\* returns nil or AlreadyExists.
C2_OneJobPerName ==
    /\ \A n \in Names :
          LiveJobs(n) = (IF n \in DOMAIN jobs THEN {jobs[n]} ELSE {})
    /\ \A c \in Callers :
          (call[c].op = "StartJob" /\ call[c].pc = "idle")
          => call[c].ret \in {"nil", "AlreadyExists"}

C2_Witness ==
    \E c, d \in Callers :
        /\ call[c].op = "StartJob" /\ call[c].pc = "idle" /\ call[c].ret = "nil"
        /\ call[d].op = "StartJob" /\ call[d].pc = "idle"
        /\ call[d].ret = "AlreadyExists" /\ call[d].name = call[c].name
        /\ Allocated = {1}

\* C3: StopJob for an unregistered name returns NotFound and changes no Job and
\* not the registry; StopJob for a registered name closes that Job's stop channel
\* and removes the name; GetJobStatus for a name not in the registry returns
\* NotFound; a name enters the registry only by a StartJob for it.
C3_StopJob ==
    [][\A c \in Callers, n \in Names :
          /\ (StopJob(c, n) /\ n \notin DOMAIN jobs)
             => /\ call'[c].ret = "NotFound" /\ call'[c].pc = "idle"
                /\ jobs' = jobs /\ job' = job
          /\ (StopJobClose(c) /\ call[c].name = n)
             => /\ call'[c].ret = "nil"
                /\ job'[call[c].job].StopChan = "closed"
                /\ n \notin DOMAIN jobs'
          /\ (GetJobStatus(c, n) /\ n \notin DOMAIN jobs)
             => call'[c].ret = "NotFound"
          /\ (n \notin DOMAIN jobs /\ n \in DOMAIN jobs')
             => \E d \in Callers : StartJobInsert(d) /\ call[d].name = n]_vars

C3_Witness ==
    \E c \in Callers :
        /\ call[c].op = "GetJobStatus" /\ call[c].pc = "idle"
        /\ call[c].ret = "NotFound"
        /\ \E j \in JobIds : job[j].Feed.Name = call[c].name /\ job[j].StopChan = "closed"

\* C4: GetJobStatus returns NotFound exactly for the names not in the registry,
\* and otherwise the registered Job; the status built from it carries the Job's
\* last run and last error and is_active = true, whatever the loop is doing; and
\* neither step changes the registry, a Job or a loop.
C4_Status ==
    [][\A c \in Callers, n \in Names :
          /\ GetJobStatus(c, n)
             => /\ (call'[c].ret = "NotFound") <=> (n \notin DOMAIN jobs)
                /\ n \in DOMAIN jobs => call'[c].job = jobs[n]
                /\ jobs' = jobs /\ job' = job /\ loop' = loop
          /\ (StatusHandler(c) /\ call[c].name = n)
             => /\ call'[c].status =
                      [found |-> TRUE, name |-> n,
                       last_run |-> job[call[c].job].LastRun,
                       is_active |-> TRUE,
                       error |-> job[call[c].job].Error]
                /\ jobs' = jobs /\ job' = job /\ loop' = loop]_vars

C4_Witness ==
    \E c \in Callers :
        /\ call[c].op = "GetJobStatus" /\ call[c].pc = "idle"
        /\ call[c].status.found /\ call[c].status.is_active
        /\ call[c].status.last_run > 0
        /\ loop[call[c].job].pc = "select"

\* C8: the items a successful cycle persists are what the source served when
\* that cycle fetched.
C8_CyclePersistsFreshItems ==
    \A j \in JobIds :
        (loop[j].result = "ok" /\ loop[j].byTick) => loop[j].items = loop[j].served

\* C9: a cycle marked failed has made MaxRetries + 1 attempts.
C9_FailedCycleAttempts ==
    \A j \in JobIds : loop[j].result = "fail" => loop[j].attempts = MaxRetries + 1

\* C10: a cycle that has ended after fewer than MaxRetries failed fetches and no
\* failed store has succeeded: the Job's last run is later than before the
\* cycle and its last error is nil.
C10_CycleSucceeds ==
    \A j \in JobIds :
        (loop[j].result # "none" /\ loop[j].fetchFails < MaxRetries
           /\ loop[j].storeFails = 0)
        => /\ loop[j].result = "ok"
           /\ job[j].Error = NilErr
           /\ job[j].LastRun > loop[j].prevRun

C10_Witness ==
    \E j \in JobIds :
        /\ loop[j].result = "ok" /\ loop[j].byTick
        /\ loop[j].fetchFails = MaxRetries - 1 /\ loop[j].fetchFails > 0

\* C11: when a cycle ends with every attempt failed, the Job's last error becomes
\* the retry-exhausted error that wraps the failure of the last attempt, the
\* Job's last run is unchanged, no other Job changes, and no caller's call or
\* result changes.
C11_FailedCycleRecorded ==
    [][\A j \in JobIds :
          (loop[j].result = "none" /\ loop'[j].result = "fail")
          => /\ loop[j].fetchFails + loop[j].storeFails = MaxRetries
             /\ loop[j].lastErr \in {"failed to parse feed", "failed to store feed items"}
             /\ job'[j].Error.msg = "failed after retries"
             /\ job'[j].Error.cause = loop[j].lastErr
             /\ job'[j].LastRun = job[j].LastRun
             /\ \A k \in JobIds \ {j} : job'[k] = job[k]
             /\ call' = call /\ jobs' = jobs]_vars

C11_Witness ==
    \E j \in JobIds :
        /\ loop[j].result = "fail" /\ loop[j].storeFails > 0
        /\ job[j].Error.cause = "failed to store feed items"
        /\ job[j].LastRun > 0 /\ job[j].LastRun < now

\* C12: a GetStoredFeedItems that begins while the cycles of its feed are
\* failing, and meets no backend error itself, returns the items of the last
\* successful cycle.
C12_GetDuringFailure ==
    \A t \in Threads :
        (GetDone(t) /\ frame[t].during /\ frame[t].ret.status # "err")
        => /\ frame[t].ret.status = "ok"
           /\ SameItems(frame[t].ret.items, frame[t].want)

\* the join of thread t's StoreFeedItems, and of its GetStoredFeedItems
StoreReturns(t) == frame[t].fn = "put" /\ frame[t].pc = "fan" /\ frame'[t].pc = "done"

GetReturns(t) == frame[t].fn = "get" /\ frame[t].pc = "fan" /\ frame'[t].pc = "done"

\* C13: a StoreFeedItems with a failed write returns the first error collected,
\* at its return the bucket and the cache are left as they are, and no step of
\* the call removes an object or touches the cache.
C13_FailedStore ==
    [][\A t \in Threads :
          /\ (StoreReturns(t) /\ Len(frame[t].errs) > 0)
             => /\ frame'[t].ret.status = "err"
                /\ frame'[t].ret.err = frame[t].errs[1]
                /\ s3' = s3 /\ cache' = cache
          /\ (frame[t].fn = "put" /\ frame[t].pc = "fan"
                /\ frame'[t].todo # frame[t].todo)
             => /\ cache' = cache
                /\ \A k \in DOMAIN s3 :
                      /\ k \in DOMAIN s3'
                      /\ (s3'[k] = s3[k] \/ k \in KeysOf(frame[t].name, frame[t].items))]_vars

C13_Witness ==
    \E t \in Threads :
        /\ StoreDone(t) /\ frame[t].ret.status = "err"
        /\ Len(frame[t].items) = 2 /\ Len(frame[t].errs) = 1
        /\ \E i \in DOMAIN frame[t].items :
              /\ frame[t].ret.err # <<"put", i>>
              /\ ItemKeyOf(frame[t].name, frame[t].items[i]) \in DOMAIN s3
              /\ s3[ItemKeyOf(frame[t].name, frame[t].items[i])] = Marshal(frame[t].items[i])
        /\ lastOK[frame[t].name].set
        /\ cache[ItemsKey(frame[t].name)].val = lastOK[frame[t].name].items
        /\ lastOK[frame[t].name].items # frame[t].items

\* C14: a StoreFeedItems without a failed write leaves under "items:<name>" the
\* item list it was given, whatever the entry was and whatever the bucket holds,
\* and changes no other cache entry.
C14_StoreRefreshesCache ==
    [][\A t \in Threads :
          (StoreReturns(t) /\ Len(frame[t].errs) = 0)
          => /\ frame'[t].ret.status = "ok"
             /\ ItemsKey(frame[t].name) \in DOMAIN cache'
             /\ cache'[ItemsKey(frame[t].name)] = [rep |-> "gofeed", val |-> frame[t].items]
             /\ \A k \in DOMAIN cache \ {ItemsKey(frame[t].name)} :
                   k \in DOMAIN cache' /\ cache'[k] = cache[k]]_vars

C14_Witness ==
    \E t \in Threads :
        /\ StoreDone(t) /\ frame[t].ret.status = "ok" /\ ~frame[t].rerun
        /\ frame[t].items # <<>>
        /\ cache[ItemsKey(frame[t].name)].val = frame[t].items
        /\ ListObjects(s3, Prefix(frame[t].name)) # KeysOf(frame[t].name, frame[t].items)

\* C15: a GetStoredFeedItems whose listing fails, or one of whose reads or
\* decodes fails, returns an error (the first collected) and no items, and does
\* not write the cache.
C15_FailedGet ==
    [][\A t \in Threads :
          /\ (frame[t].fn = "get" /\ frame[t].pc = "list" /\ frame'[t].pc = "done")
             => /\ frame'[t].ret.status = "err" /\ frame'[t].ret.items = <<>>
                /\ cache' = cache
          /\ (GetReturns(t) /\ Len(frame[t].errs) > 0)
             => /\ frame'[t].ret.status = "err" /\ frame'[t].ret.items = <<>>
                /\ frame'[t].ret.err = frame[t].errs[1]
                /\ cache' = cache]_vars

C15_Witness ==
    \E t \in Threads :
        /\ GetDone(t) /\ frame[t].ret.status = "err"
        /\ Len(frame[t].got) > 0 /\ Len(frame[t].errs) > 0
        /\ ItemsKey(frame[t].name) \notin DOMAIN cache

\* C16: no object is stored under an ItemKey of more than 200 characters.
C16_KeyAtMost200 ==
    \A k \in DOMAIN s3 : Len(k[4]) <= 200

\* C17: after a successful StoreFeedItems of two items whose identifiers differ,
\* are both longer than 200 characters and share their first 192, each of the
\* two is in the bucket under its own ItemKey.
C17_LongIdsKeptApart ==
    \A t \in Threads :
        (StoreDone(t) /\ frame[t].ret.status = "ok")
        => \A i, j \in DOMAIN frame[t].items :
              LET a == ItemID(frame[t].items[i])
                  b == ItemID(frame[t].items[j])
              IN  (a # b /\ Len(a) > 200 /\ Len(b) > 200
                     /\ SubSeq(a, 1, 192) = SubSeq(b, 1, 192))
                  => /\ ItemKeyOf(frame[t].name, frame[t].items[i])
                          # ItemKeyOf(frame[t].name, frame[t].items[j])
                     /\ s3[ItemKeyOf(frame[t].name, frame[t].items[i])]
                          = Marshal(frame[t].items[i])

\* C18: after a successful StoreFeedItems every item of the call is an object
\* at sources/<name>/items/<ItemKey>.json.
C18_ObjectsUnderSources ==
    \A t \in Threads :
        (StoreDone(t) /\ frame[t].ret.status = "ok")
        => \A i \in DOMAIN frame[t].items :
              <<"sources", frame[t].name, "items",
                sanitizeID(ItemID(frame[t].items[i])), ".json">> \in DOMAIN s3

\* C19: whatever a call on the other feed name is doing, a StoreFeedItems or
\* GetStoredFeedItems in progress can take its next step, and a caller can
\* begin either call.
C19_OtherNameNeverBlocks ==
    \A t \in PairCallers :
        /\ frame[t].pc # "done" => ENABLED StepOf(t)
        /\ frame[t].pc = "done"
           => /\ ENABLED CallGetStoredFeedItems(t, NameOf(t))
              /\ ENABLED CallStoreFeedItems(t, NameOf(t), <<ItemD>>)

C19_Witness ==
    \E t, u \in PairCallers :
        /\ frame[t].name # frame[u].name
        /\ frame[t].fn = "put" /\ frame[t].pc = "fan" /\ frame[t].todo # {}
        /\ frame[u].fn = "get" /\ frame[u].pc = "fan" /\ frame[u].todo # {}

\* C20: a StopJob for a name changes no registry entry of another name, no Job
\* but the one registered under the name, no loop's position, and cancels no
\* context.
C20_StopJobOnlyItsJob ==
    [][\A c \in Callers, n \in Names :
          (StopJob(c, n) \/ (StopJobClose(c) /\ call[c].name = n))
          => /\ \A m \in Names \ {n} :
                   /\ (m \in DOMAIN jobs) <=> (m \in DOMAIN jobs')
                   /\ m \in DOMAIN jobs => jobs'[m] = jobs[m]
             /\ \A j \in JobIds :
                   (n \notin DOMAIN jobs \/ j # jobs[n]) => job'[j] = job[j]
             /\ loop' = loop
             /\ ctxDone' = ctxDone]_vars

C20_Witness ==
    \E c \in Callers :
        /\ call[c].op = "StopJob" /\ call[c].pc = "idle" /\ call[c].ret = "nil"
        /\ \E j \in JobIds :
              job[j].Feed.Name = call[c].name /\ job[j].StopChan = "closed"
        /\ \E m \in DOMAIN jobs :
              /\ m # call[c].name
              /\ job[jobs[m]].StopChan = "open"
              /\ loop[jobs[m]].pc \in {"attempt", "store"}

\* C21: when a cycle of the update loop hands its items to StoreFeedItems, a
\* summary has been asked for every one of them.
C21_CycleAnnotates ==
    \A j \in JobIds :
        loop[j].pc = "store" => frame[LoopThread(j)].asked = DOMAIN loop[j].items

\* the item but for the summary in its custom map
SansSummary(item) == [item EXCEPT !.custom = {p \in @ : p[1] # "summary"}]

\* C22: in UpdateFeed a failed Summarize leaves its item as it was and the range
\* goes on to the next item; when the range is over a summary was asked for
\* every item, and the list handed to StoreFeedItems is the fetched list, item by
\* item and in order, but for the summaries, the failed items being untouched.
C22_FailedSummaryKeepsItem ==
    [][\A t \in Threads :
          /\ UpdateAnnotate(t)
             => /\ frame'[t].fn = "update" /\ frame'[t].pc = "annotate"
                /\ frame'[t].k = frame[t].k + 1
                /\ Len(frame'[t].items) = Len(frame[t].items)
                /\ \A i \in DOMAIN frame[t].items :
                      (i # frame[t].k \/ i \in frame'[t].failed)
                      => frame'[t].items[i] = frame[t].items[i]
          /\ UpdateStore(t)
             => /\ frame'[t].fn = "put" /\ frame'[t].items = frame[t].items
                /\ frame[t].asked = DOMAIN frame[t].fetched
                /\ DOMAIN frame[t].items = DOMAIN frame[t].fetched
                /\ \A i \in DOMAIN frame[t].items :
                      /\ SansSummary(frame[t].items[i]) = SansSummary(frame[t].fetched[i])
                      /\ i \in frame[t].failed
                         => frame[t].items[i] = frame[t].fetched[i]]_vars

C22_Witness ==
    \E t \in Threads :
        /\ StoreDone(t) /\ frame[t].outer = "update" /\ frame[t].ret.status = "ok"
        /\ frame[t].failed = {1} /\ Len(frame[t].items) = 2
        /\ frame[t].items[1] = frame[t].fetched[1]
        /\ <<"summary", "s2">> \in frame[t].items[2].custom

\* C23: the retry helper calls the wrapped operation at most MaxRetries + 1
\* times; when the operation first succeeds on its k-th call the helper
\* returns success after exactly k calls; when every call fails and no
\* cancellation fires it gives up after exactly MaxRetries + 1 calls.
C23_RetryAttempts ==
    \A t \in Threads :
        LET r == frame[t].retry
        IN  r.err # "none" =>
              /\ r.calls <= RssMaxRetries + 1
              /\ (r.cancelAt = 0 /\ r.failures <= RssMaxRetries)
                    => (r.err = "nil" /\ r.calls = r.failures + 1)
              /\ (r.cancelAt = 0 /\ r.failures > RssMaxRetries)
                    => (r.err = "exhausted" /\ r.calls = RssMaxRetries + 1)

\* a helper run that succeeded on a retry, in a call where another unit's
\* helper run had already given up
C23_Witness ==
    \E t \in Threads :
        /\ frame[t].retry.err = "nil" /\ frame[t].retry.calls = RssMaxRetries + 1
        /\ \E e \in Range(frame[t].errs) : e[1] = "exhausted"

\* C24: when the retry helper gives up, its error wraps the failure of the
\* last call and the count it carries is the number of attempts made.
C24_ExhaustedCount ==
    \A t \in Threads :
        LET r == frame[t].retry
        IN  r.err = "exhausted" => (r.lastErr = r.calls /\ r.retries = r.calls)

\* C30: when the cancellation signal fires during the wait before attempt k,
\* the retry helper returns the context's error having made exactly the k
\* calls that preceded that wait, and the unit reports an error.
C30_CancelStopsRetry ==
    \A t \in Threads :
        LET r == frame[t].retry
        IN  (r.err # "none" /\ r.cancelAt # 0) =>
              /\ r.err = "ctx"
              /\ r.calls = r.cancelAt
              /\ frame[t].errs # <<>>
              /\ frame[t].errs[Len(frame[t].errs)][1] = "ctx"

\* the signal fired during the second wait: two calls were made, no third
C30_Witness ==
    \E t \in Threads :
        /\ frame[t].retry.err = "ctx" /\ frame[t].retry.cancelAt = 2
        /\ frame[t].retry.calls = 2

\* C25: the loop of a Job is in its first cycle as soon as StartJob has
\* registered the Job, with no tick in between; a loop that waits enters a
\* cycle only by a tick of its own ticker, one cycle per tick; and a loop
\* that has returned on the stop signal or the cancellation never moves again.
C25_CycleStarts ==
    [][\A j \in JobIds :
         /\ (job[j].StopChan = "none" /\ job'[j].StopChan = "open")
               => /\ loop'[j] = [NoLoop EXCEPT !.pc = "attempt"]
                  /\ now' = now
                  /\ \E c \in Callers : call[c].pc = "insert" /\ call'[c].ret = "nil"
         /\ (loop[j].pc = "select" /\ loop'[j].pc = "attempt")
               => /\ now' = now + 1
                  /\ loop'[j].byTick /\ loop'[j].attempts = 0
                  /\ \A k \in JobIds \ {j} : loop'[k] = loop[k]
         /\ (loop'[j] # loop[j] /\ loop'[j].pc = "attempt" /\ loop'[j].attempts = 0)
               => loop[j].pc \in {"none", "select"}
         /\ loop[j].pc = "exit" => loop'[j] = loop[j]]_vars

\* a loop that ran its first cycle, a cycle on a tick, and then returned
C25_Witness ==
    \E j \in JobIds : loop[j].pc = "exit" /\ loop[j].byTick /\ loop[j].result # "none"

\* C26: the step that marks a cycle failed records the error, leaves the
\* registry and the Job's stop channel as they were and puts the loop back
\* at its wait; from there a tick is possible while time is left and starts
\* a new cycle at attempt 0; the step that ends a cycle in success leaves no
\* recorded error.
C26_FailedCycleKeepsJob ==
    [][\A j \in JobIds :
         /\ (loop[j].pc = "attempt" /\ loop'[j].result = "fail")
               => /\ job'[j].Error # NilErr
                  /\ jobs' = jobs
                  /\ job'[j].StopChan = job[j].StopChan
                  /\ loop'[j].pc = "select"
         /\ (loop[j].pc = "select" /\ loop[j].result = "fail" /\ now < MaxTime)
               => ENABLED LoopTick(j)
         /\ (loop[j].result = "fail" /\ LoopTick(j))
               => (loop'[j].pc = "attempt" /\ loop'[j].i = 0 /\ loop'[j].byTick)
         /\ (loop[j].pc = "store" /\ loop'[j].result = "ok")
               => job'[j].Error = NilErr]_vars

\* a Job whose first cycle failed and whose cycle on the next tick succeeded
C26_Witness ==
    \E j \in JobIds :
        /\ loop[j].byTick /\ loop[j].result = "ok" /\ loop[j].prevRun = 0
        /\ job[j].Error = NilErr /\ job[j].LastRun > 0

\* C27: a pass of a cycle whose fetch+parse fails starts no StoreFeedItems
\* and changes neither the bucket nor the cache; the loop stays in the cycle
\* with the failure as its last error.
C27_FailedFetchChangesNothing ==
    [][\A j \in JobIds :
         (loop[j].pc = "attempt" /\ loop'[j].fetchFails = loop[j].fetchFails + 1)
         => /\ s3' = s3
            /\ cache' = cache
            /\ frame' = frame
            /\ loop'[j].pc = "attempt"
            /\ loop'[j].lastErr = "failed to parse feed"]_vars

\* the fetch of one feed has failed while the other feed's items are stored
\* and its feed cached
C27_Witness ==
    \E j \in JobIds :
        /\ loop[j].pc = "attempt" /\ loop[j].fetchFails = 1
        /\ UrlKey(job[j].Feed.RssFeed) \notin DOMAIN cache
        /\ s3 # EmptyMap /\ cache # EmptyMap

\* C28: a GetStoredFeedItems that finds its key in the cache returns the
\* cached value.
C28_CacheHitReturnsCached ==
    \A t \in Threads :
        (GetDone(t) /\ frame[t].hit)
        => /\ frame[t].ret.status = "ok"
           /\ frame[t].ret.items = cache[ItemsKey(frame[t].name)].val

\* C29: in StoreFeedItems and GetStoredFeedItems every goroutine that has
\* finished has delivered at most one value (a put: at most one error; a get:
\* exactly one item or one error), so neither channel ever holds more than
\* its capacity, the number of goroutines; the call has not returned, and has
\* reported no error, while a goroutine is still running; and once all of
\* them are done the join can be taken.
C29_FanOutJoin ==
    \A t \in Threads :
        LET f == frame[t]
        IN  /\ (f.fn = "put" /\ f.pc = "fan")
                  => /\ Len(f.errs) <= Len(f.items) - Cardinality(f.todo)
                     /\ Len(f.errs) <= Len(f.items)
                     /\ (f.todo = {} => ENABLED StoreJoin(t))
            /\ (f.fn = "get" /\ f.pc = "fan")
                  => /\ Len(f.errs) + Len(f.got) = Len(f.keys) - Cardinality(f.todo)
                     /\ Len(f.errs) <= Len(f.keys) /\ Len(f.got) <= Len(f.keys)
                     /\ (f.todo = {} => ENABLED GetJoin(t))
            /\ (f.fn \in {"put", "get"} /\ f.pc = "fan") => f.ret = NoRet
            /\ (f.fn \in {"put", "get"} /\ f.pc = "done") => f.todo = {}

\* a put or a get that returned an error after both of its goroutines had
\* delivered one: the error channel was filled to its capacity
C29_Witness ==
    \E t \in Threads :
        /\ frame[t].pc = "done" /\ frame[t].ret.status = "err"
        /\ Len(frame[t].errs) = 2
        /\ \/ frame[t].fn = "put" /\ Len(frame[t].items) = 2
           \/ frame[t].fn = "get" /\ Len(frame[t].keys) = 2

\* C31: a StoreFeedItems that reports a persistence failure has put every
\* object it failed on MaxRetries + 1 times.
C31_PutRetried ==
    \A t \in Threads :
        (StoreDone(t) /\ frame[t].ret.status = "err")
        => \A e \in Range(frame[t].errs) : frame[t].tries[e[2]] = RssMaxRetries + 1

\* C32: a loop whose context is cancelled or whose stop channel is closed
\* eventually returns; it returns only from its select, never from inside a
\* cycle, and the fetch of a cycle in flight still runs after the signal.
C32_SignalEndsLoop ==
    /\ \A j \in JobIds :
          (loop[j].pc \in {"attempt", "store", "select"} /\ (ctxDone[job[j].ctx] \/ job[j].StopChan = "closed"))
             ~> (loop[j].pc = "exit")
    /\ [][\A j \in JobIds :
            /\ (loop[j].pc # "exit" /\ loop'[j].pc = "exit")
                  => /\ loop[j].pc = "select"
                     /\ ctxDone[job[j].ctx] \/ job[j].StopChan = "closed"
            /\ (loop[j].pc = "attempt" /\ MoreAttempts(loop[j].i)
                  /\ (ctxDone[job[j].ctx] \/ job[j].StopChan = "closed"))
                  => ENABLED UpdateAttempt(j)]_vars

\* a loop that completed a cycle and then returned on the stop signal alone,
\* its context not cancelled
C32_Witness ==
    \E j \in JobIds :
        /\ loop[j].pc = "exit" /\ loop[j].result = "ok"
        /\ job[j].LastRun > 0 /\ ctxDone[job[j].ctx] = FALSE
        /\ job[j].StopChan = "closed"

\* C33: once a Job's stop channel is closed and the registry call that closed
\* it has returned, the Job's loop starts no cycle, makes no fetch and puts
\* no object.
C33_StoppedLoopIdle ==
    [][\A j \in JobIds :
         (job[j].StopChan = "closed" /\ \A c \in Callers : call[c].pc = "idle")
         => /\ ~(loop[j].pc = "select" /\ loop'[j].pc = "attempt")
            /\ ~(loop[j].pc = "attempt" /\ loop'[j].attempts = loop[j].attempts + 1)
            /\ ~StoreUnit(LoopThread(j))]_vars

\* C34: at most one loop is inside a cycle for a feed name.
C34_OneLoopPerName ==
    \A n \in Names :
        Cardinality({j \in JobIds : /\ job[j].Feed.Name = n
                                   /\ loop[j].pc \in {"attempt", "store"}}) <= 1

\* C35: the loop of every registered Job is alive: no name of the registry is
\* bound to a Job whose loop has returned.
C35_RegisteredJobHasLoop ==
    \A n \in DOMAIN jobs : loop[jobs[n]].pc # "exit"

\* the next step of the loop assigns job.Error or job.LastRun
WritesJob(j) ==
    \/ loop[j].pc = "attempt" /\ ~MoreAttempts(loop[j].i)
    \/ /\ loop[j].pc = "store" /\ frame[LoopThread(j)].pc = "done"
       /\ frame[LoopThread(j)].ret.status = "ok"

\* C36: the status handler's read of a Job's LastRun and Error and the loop's
\* write of them are never both about to happen with no lock between them.
C36_NoRaceOnJob ==
    \A c \in Callers, j \in JobIds :
        ~(call[c].pc = "read" /\ call[c].job = j /\ mu # c /\ WritesJob(j))

\* C37: every cache entry under an "items:<name>" key has the representation
\* the cache hit of GetStoredFeedItems asserts, []map[string]interface{}.
C37_ItemsEntryIsMaps ==
    \A n \in Names :
        ItemsKey(n) \in DOMAIN cache => cache[ItemsKey(n)].rep = "maps"

\* C38: a GetStoredFeedItems answered from the bucket whose listing and whose
\* every read and decode succeeded returns the items.
C38_MergeNeverFails ==
    \A t \in Threads :
        (GetDone(t) /\ ~frame[t].hit /\ frame[t].ret.status # "err")
        => /\ frame[t].ret.status = "ok"
           /\ Len(frame[t].ret.items) = Len(frame[t].keys)

\* C39: the items of one successful StoreFeedItems whose identifiers differ
\* are written under different object names: the call's object names are as
\* many as its distinct identifiers.
C39_DistinctIdsDistinctKeys ==
    \A t \in Threads :
        (StoreDone(t) /\ frame[t].ret.status = "ok")
        => LET items == frame[t].items
           IN  /\ \A i, j \in DOMAIN items :
                     ItemID(items[i]) # ItemID(items[j])
                     => ItemKeyOf(frame[t].name, items[i]) # ItemKeyOf(frame[t].name, items[j])
               /\ Cardinality({ItemKeyOf(frame[t].name, items[i]) : i \in DOMAIN items})
                     = Cardinality({ItemID(items[i]) : i \in DOMAIN items})

\* C40: no StopJob and no StopAllJobs ever closes a closed channel (the close
\* of a closed channel is a panic of the call); a channel is closed only while
\* open, together with the removal of its Job's name; and a StopAllJobs that
\* returns leaves the registry empty and every Job ever registered closed.
C40_ClosedOnce ==
    [][/\ \A c \in Callers : call'[c].ret # "panic"
       /\ \A j \in JobIds :
             (job'[j].StopChan = "closed" /\ job[j].StopChan # "closed")
             => /\ job[j].StopChan = "open"
                /\ \E n \in DOMAIN jobs : jobs[n] = j /\ n \notin DOMAIN jobs'
       /\ \A j \in JobIds : job[j].StopChan = "closed" => job'[j].StopChan = "closed"
       /\ \A c \in Callers :
             (call[c].op = "StopAllJobs" /\ call[c].pc = "range" /\ call'[c].pc = "idle")
             => /\ call'[c].ret = "nil"
                /\ jobs' = EmptyMap
                /\ \A j \in Allocated : job'[j].StopChan = "closed"]_vars

\* a StopAllJobs that found two Jobs registered has returned
C40_Witness ==
    \E c \in Callers :
        /\ call[c].op = "StopAllJobs" /\ call[c].pc = "idle" /\ call[c].ret = "nil"
        /\ jobs = EmptyMap
        /\ \A j \in JobIds : job[j].StopChan = "closed"
        /\ \A d \in Callers : call[d].op # "StopJob"

====
